---- MODULE Spec2Model ----
(***************************************************************************)
(* Model of the Verisure app API client (src/verisure.go, the client of    *)
(* lines 305-624): the session fields of a Verisure value, the requests    *)
(* its operations hand to http.Client.Do, and what each operation does     *)
(* with the outcome.                                                       *)
(*                                                                         *)
(* One caller uses the instance (the type has no locking).  Login is a     *)
(* sequence of steps, one per client.Do call; Overview, UpdateSmartplug    *)
(* and Logout make a single client.Do call and are one step each.          *)
(***************************************************************************)
EXTENDS Integers, Sequences, FiniteSets, TLC

----------------------------------------------------------------------------
(* Bounds of the model *)

\* operations invoked on the instance in one behaviour
MaxCalls == 3
\* records in an installation-search response
MaxRecords == 2

----------------------------------------------------------------------------
(* Program constants *)

mediaType == "application/json"

apiURLs == << "https://e-api01.verisure.com/xbn/2",
              "https://e-api02.verisure.com/xbn/2" >>

\* http.StatusOK
StatusOK == 200

Endpoints == { apiURLs[i] : i \in 1..Len(apiURLs) }

----------------------------------------------------------------------------
(* Inputs and server answers the model draws from *)

Usernames == { "user@example.com" }

\* argument of NewWithGIID
GiidArgs == { "ZZZ999" }

\* installations the server knows
ServerGiids == { "ABC123", "ZZZ999" }

\* final response statuses: success, another 2xx, a redirect, a rejection
Statuses == { 200, 204, 302, 401 }

\* a decoded JSON value: its JSON type and its text
JString(s) == [t |-> "string", s |-> s]
JNumber(s) == [t |-> "number", s |-> s]
JBool(b)   == [t |-> "bool", s |-> IF b THEN "true" ELSE "false"]
JNull      == [t |-> "null", s |-> ""]

GiidValues == { JString("ABC123"), JString("ZZZ999"), JString(""), JNumber("1") }

\* a JSON object: a function from some keys to JSON values
InstallationRecords ==
    { ("giid" :> g) : g \in GiidValues }
    \cup { ("other" :> JNumber("1")) }
    \cup { ("giid" :> JString("ABC123")) @@ ("other" :> JNumber("1")) }

SeqsUpTo(S, n) == UNION { [1..k -> S] : k \in 0..n }

\* a response body: ok is whether it decodes into the Go value it is read
\* into, recs the decoded array of objects
Body(ok, recs) == [ok |-> ok, recs |-> recs]
NoBody == Body(TRUE, << >>)

SearchBodies == { Body(TRUE, r) : r \in SeqsUpTo(InstallationRecords, MaxRecords) }
                \cup { Body(FALSE, << >>) }

OverviewBodies == { Body(TRUE, << >>), Body(FALSE, << >>) }

\* a SmartPlugState, and the arguments of UpdateSmartplug
SmartPlugState(label, state) == [deviceLabel |-> label, state |-> state]
UpdateArgs == { << >>,
                << SmartPlugState("X", TRUE) >>,
                << SmartPlugState("X", FALSE), SmartPlugState("Y", TRUE) >> }

----------------------------------------------------------------------------
(* Errors *)

Err(kind, msg, code) == [kind |-> kind, msg |-> msg, code |-> code]
NilErr == Err("nil", "", 0)
\* fmt.Errorf("<prefix>: %d %s", res.StatusCode, res.Status)
StatusErr(prefix, code) == Err("status", prefix, code)
\* an error of http.Client.Do
TransportErr(msg) == Err("transport", msg, 0)
\* an error of json.Decoder.Decode
DecodeErr == Err("decode", "json", 0)
\* fmt.Errorf("no installations found"), fmt.Errorf("no giid found")
ProtocolErr(msg) == Err("protocol", msg, 0)

----------------------------------------------------------------------------
VARIABLES
    v,          \* the Verisure value: baseURL, giid, jar (client.Jar, one cookie per host, 0 = none)
    srv,        \* server side: the session cookies the servers accept
    issued,     \* server side: session cookies issued so far
    pc,         \* where the caller is: "idle", "tryURLs", "installation", "giid"
    res,        \* installation: what client.Do returned to the last Login, until the next operation
    idx,        \* tryURLs: index of the range loop over apiURLs
    username,   \* Login: its username argument
    ctxDone,    \* whether the context of the operation in progress is cancelled or expired
    log,        \* the client.Do calls of the operation in progress (or the last one), with their outcomes
    ret,        \* the last operation that returned, and its error
    pre,        \* v, and whether ctx was done, when the last operation was invoked
    lastLogin,  \* the last Login that returned: its error, the endpoints that failed, the one that accepted
    ncalls      \* operations invoked so far

vars == << v, srv, issued, pc, res, idx, username, ctxDone, log, ret, pre, lastLogin, ncalls >>

----------------------------------------------------------------------------
(* Requests *)

Request(method, base, route, g, email, basic, hdrs, body) ==
    [method |-> method, base |-> base, route |-> route, giid |-> g,
     email |-> email, basic |-> basic, hdrs |-> hdrs, body |-> body]

\* newRequest: http.NewRequest and the two headers
newRequest(method, base, route, g, email, body) ==
    Request(method, base, route, g, email, "",
            { << "Accept", mediaType >>, << "Content-Type", mediaType >> }, body)

\* req.SetBasicAuth("CPE/"+username, password)
SetBasicAuth(req, user) == [req EXCEPT !.basic = "CPE/" \o user]

\* the cookie the jar sends with a request to base
JarCookie(jar, base) == IF base \in Endpoints THEN jar[base] ELSE 0

----------------------------------------------------------------------------
(* http.Client.Do and the server behind it *)

\* whether the server treats the request as authenticated
ServerAuthorizes(req, cookie) ==
    /\ cookie \in srv
    /\ (req.route \in {"overview", "smartplug/state"} => req.giid \in ServerGiids)

ServerStatuses(req, cookie) ==
    IF req.method = "POST" /\ req.route = "cookie" THEN Statuses
    ELSE IF ServerAuthorizes(req, cookie) THEN Statuses
    ELSE Statuses \ { StatusOK }

ServerBodies(req, status) ==
    IF status # StatusOK THEN { NoBody }
    ELSE IF req.route = "search" THEN SearchBodies
    ELSE IF req.route = "overview" THEN OverviewBodies
    ELSE { NoBody }

Outcome(sent, status, err, body) ==
    [sent |-> sent, status |-> status, err |-> err, body |-> body]

\* v.client.Do(req.WithContext(ctx)): the outcomes it can have.  A URL
\* without a scheme is refused before anything is sent; so is a request
\* whose context is already done; a request that is sent gets a response
\* or fails in transport.
Do(req, cookie, done) ==
    IF req.base = ""
    THEN { Outcome(FALSE, 0, TransportErr("unsupported protocol scheme"), NoBody) }
    ELSE IF done
    THEN { Outcome(FALSE, 0, TransportErr("context"), NoBody) }
    ELSE { Outcome(TRUE, 0, TransportErr("network"), NoBody) }
         \cup UNION { { Outcome(TRUE, s, NilErr, b) : b \in ServerBodies(req, s) } :
                  s \in ServerStatuses(req, cookie) }

\* what the log keeps of a client.Do call: the request, the cookie the jar
\* added to it, whether it was sent, and the status or error that came back
LogEntry(req, cookie, out) ==
    [req |-> req, cookie |-> cookie, sent |-> out.sent, status |-> out.status,
     err |-> out.err]

NoRes == Outcome(FALSE, 0, NilErr, NoBody)

----------------------------------------------------------------------------
(* The pure functions of the client *)

\* result[0]["giid"]: indexing a map with a key it lacks gives nil
MapIndex(m, k) == IF k \in DOMAIN m THEN m[k] ELSE JNull

\* x.(string): the value and ok; the zero value "" when x is no string
AssertString(x) == IF x.t = "string" THEN [s |-> x.s, ok |-> TRUE]
                   ELSE [s |-> "", ok |-> FALSE]

GiidKey == "giid"

\* bugs to test with: no check for an empty list (the first record is then
\* a nil map); the last record is used; the first record with a string giid
\* is used
giidNoEmptyCheck(body) ==
    IF ~body.ok THEN [giid |-> "", err |-> DecodeErr]
    ELSE LET first == IF Len(body.recs) < 1 THEN [k \in {} |-> JNull] ELSE body.recs[1]
             a == AssertString(MapIndex(first, GiidKey))
         IN  IF ~a.ok THEN [giid |-> a.s, err |-> ProtocolErr("no giid found")]
             ELSE [giid |-> a.s, err |-> NilErr]

giidLastRecord(body) ==
    IF ~body.ok THEN [giid |-> "", err |-> DecodeErr]
    ELSE IF Len(body.recs) < 1
    THEN [giid |-> "", err |-> ProtocolErr("no installations found")]
    ELSE LET a == AssertString(MapIndex(body.recs[Len(body.recs)], GiidKey))
         IN  IF ~a.ok THEN [giid |-> a.s, err |-> ProtocolErr("no giid found")]
             ELSE [giid |-> a.s, err |-> NilErr]

giidFirstString(body) ==
    IF ~body.ok THEN [giid |-> "", err |-> DecodeErr]
    ELSE IF Len(body.recs) < 1
    THEN [giid |-> "", err |-> ProtocolErr("no installations found")]
    ELSE LET ok == { i \in 1..Len(body.recs) :
                        AssertString(MapIndex(body.recs[i], GiidKey)).ok }
         IN  IF ok = {} THEN [giid |-> "", err |-> ProtocolErr("no giid found")]
             ELSE [giid |-> AssertString(MapIndex(
                              body.recs[CHOOSE i \in ok : \A j \in ok : i <= j],
                              GiidKey)).s,
                   err |-> NilErr]

\* giid(rc): the identifier and the error
giid(body) ==
    IF ~body.ok THEN [giid |-> "", err |-> DecodeErr]
    ELSE IF Len(body.recs) < 1
    THEN [giid |-> "", err |-> ProtocolErr("no installations found")]
    ELSE LET a == AssertString(MapIndex(body.recs[1], GiidKey))
         IN  IF ~a.ok THEN [giid |-> a.s, err |-> ProtocolErr("no giid found")]
             ELSE [giid |-> a.s, err |-> NilErr]

\* a bug to test with: every 2xx status counts as success
StatusCheck2xx(prefix, out) ==
    IF out.err # NilErr THEN out.err
    ELSE IF out.status < 200 \/ out.status > 299 THEN StatusErr(prefix, out.status)
    ELSE NilErr

\* the status check every operation makes after client.Do
StatusCheck(prefix, out) ==
    IF out.err # NilErr THEN out.err
    ELSE IF out.status # StatusOK THEN StatusErr(prefix, out.status)
    ELSE NilErr

\* authenticate: the request, and the error for an outcome of client.Do
authenticateRequest(base, user) ==
    SetBasicAuth(newRequest("POST", base, "cookie", "", "", << >>), user)

authenticate(out) == StatusCheck("login", out)

\* a bug to test with: the search always goes to the first candidate endpoint
installationRequestFirstURL(base, user) ==
    newRequest("GET", apiURLs[1], "search", "", user, << >>)

\* installation: the request, and the identifier and error for an outcome
installationRequest(base, user) ==
    newRequest("GET", base, "search", "", user, << >>)

installation(out) ==
    IF StatusCheck("installations", out) # NilErr
    THEN [giid |-> "", err |-> StatusCheck("installations", out)]
    ELSE giid(out.body)

\* json.Marshal(updates): a JSON array of objects, in order
Marshal(updates) ==
    [i \in 1..Len(updates) |->
        [deviceLabel |-> JString(updates[i].deviceLabel),
         state |-> JBool(updates[i].state)]]

----------------------------------------------------------------------------
(* Construction *)

EmptyJar == [e \in Endpoints |-> 0]

\* a bug to test with: the first candidate endpoint is preset
NewFirstURL == [baseURL |-> apiURLs[1], giid |-> "", jar |-> EmptyJar]

\* New(): no endpoint, no identifier, an empty cookie jar
New == [baseURL |-> "", giid |-> "", jar |-> EmptyJar]

\* NewWithGIID(giid)
NewWithGIID(g) == [New EXCEPT !.giid = g]

\* no operation has returned since the one in progress was invoked
NoRet == [op |-> "none", err |-> NilErr]

\* no Login has returned since the last one was invoked
NoLogin == [returned |-> FALSE, err |-> NilErr, failed |-> {}, accepted |-> "", resolved |-> ""]

Init ==
    /\ v \in { New } \cup { NewWithGIID(g) : g \in GiidArgs }
    /\ srv = {}
    /\ issued = 0
    /\ pc = "idle"
    /\ res = NoRes
    /\ idx = 1
    /\ username = ""
    /\ ctxDone = FALSE
    /\ log = << >>
    /\ ret = NoRet
    /\ pre = [v |-> v, ctxDone |-> FALSE]
    /\ lastLogin = NoLogin
    /\ ncalls = 0

----------------------------------------------------------------------------
(* Operations *)

\* an operation is invoked: the caller is idle and the bound on calls allows it
Invoke(done) ==
    /\ pc = "idle"
    /\ ncalls < MaxCalls
    /\ ncalls' = ncalls + 1
    /\ pre' = [v |-> v, ctxDone |-> done]
    /\ res' = NoRes

\* Login is invoked and enters tryURLs
Login ==
    \E user \in Usernames, done \in BOOLEAN :
        /\ Invoke(done)
        /\ username' = user
        /\ ctxDone' = done
        /\ pc' = "tryURLs"
        /\ idx' = 1
        /\ log' = << >>
        /\ ret' = NoRet
        /\ lastLogin' = NoLogin
        /\ UNCHANGED << v, srv, issued >>

\* the context of the operation in progress is cancelled or expires
CtxDone ==
    /\ pc \in { "tryURLs", "installation" }
    /\ ~ctxDone
    /\ ctxDone' = TRUE
    /\ UNCHANGED << v, srv, issued, pc, res, idx, username, log, ret, pre, lastLogin, ncalls >>

\* a bug to test with: the loop never leaves early
BreakNever(err) == FALSE

\* tryURLs: the loop leaves at the first authenticate without error
Break(err) == err = NilErr

\* a bug to test with: every iteration tries the first candidate endpoint
SetBaseURLFirst(val, u) == [val EXCEPT !.baseURL = apiURLs[1]]

\* tryURLs: the assignment v.baseURL = u of an iteration
SetBaseURL(val, u) == [val EXCEPT !.baseURL = u]

\* a bug to test with: Login goes on after tryURLs failed
tryURLsFailedIgnored(err) == FALSE

\* Login: if err := v.tryURLs(...); err != nil { return err }
tryURLsFailed(err) == err # NilErr

\* a bug to test with: Login assigns the identifier whatever installation returned
installationFailedIgnored(err) == FALSE

\* Login: giid, err := v.installation(...); if err != nil { return err }
installationFailed(err) == err # NilErr

\* a logged call is an authenticate call; it was answered 200
IsAuth(e) == e.req.method = "POST" /\ e.req.route = "cookie"
Answered200(e) == e.sent /\ e.err = NilErr /\ e.status = 200

\* the endpoints whose authenticate call of a log failed, and the last one
\* that answered 200
FailedIn(l) == { l[j].req.base : j \in { i \in 1..Len(l) : IsAuth(l[i]) /\ ~Answered200(l[i]) } }
AcceptedIn(l) ==
    LET ok == { j \in 1..Len(l) : IsAuth(l[j]) /\ Answered200(l[j]) }
    IN  IF ok = {} THEN "" ELSE l[CHOOSE j \in ok : \A k \in ok : k <= j].req.base

\* Login returns: its locals (username, ctx, the loop index) are gone
LoginReturns(l, err, resolved) ==
    /\ pc' = "idle"
    /\ username' = ""
    /\ ctxDone' = FALSE
    /\ idx' = 1
    /\ ret' = [op |-> "Login", err |-> err]
    /\ lastLogin' = [returned |-> TRUE, err |-> err, failed |-> FailedIn(l),
                     accepted |-> AcceptedIn(l), resolved |-> resolved]

\* one iteration of the loop of tryURLs: v.baseURL = u, authenticate, and
\* what follows the loop when it ends here.  A server that answers 200
\* opens a session and sets its cookie, which client.Do stores in the jar
\* for that host; the session of the cookie the request carried ends.
tryURLs ==
    /\ pc = "tryURLs"
    /\ LET u      == apiURLs[idx]
           v1     == SetBaseURL(v, u)
           req    == authenticateRequest(v1.baseURL, username)
           cookie == JarCookie(v1.jar, req.base)
       IN \E out \in Do(req, cookie, ctxDone) :
            LET err  == authenticate(out)
                log1 == Append(log, LogEntry(req, cookie, out))
                set  == out.sent /\ out.status = StatusOK
            IN /\ log' = log1
               /\ IF set
                  THEN /\ issued' = issued + 1
                       /\ srv' = (srv \ {cookie}) \cup {issued + 1}
                       /\ v' = [v1 EXCEPT !.jar[u] = issued + 1]
                  ELSE /\ v' = v1
                       /\ UNCHANGED << srv, issued >>
               /\ IF Break(err) \/ idx = Len(apiURLs)
                  THEN IF tryURLsFailed(err)
                       THEN LoginReturns(log1, err, "")
                       ELSE /\ pc' = "installation"
                            /\ UNCHANGED << idx, username, ctxDone, ret, lastLogin >>
                  ELSE /\ idx' = idx + 1
                       /\ UNCHANGED << pc, username, ctxDone, ret, lastLogin >>
    /\ UNCHANGED << res, pre, ncalls >>

\* a bug to test with: an identifier the session already has is kept
SetGiidIfUnset(val, g) == IF val.giid # "" THEN val ELSE [val EXCEPT !.giid = g]

\* Login: the assignment v.giid = giid
SetGiid(val, g) == [val EXCEPT !.giid = g]

\* Login after tryURLs, first half of installation: the search request
\* and client.Do
LoginInstallation ==
    /\ pc = "installation"
    /\ LET req    == installationRequest(v.baseURL, username)
           cookie == JarCookie(v.jar, req.base)
       IN \E out \in Do(req, cookie, ctxDone) :
            /\ log' = Append(log, LogEntry(req, cookie, out))
            /\ res' = out
    /\ pc' = "giid"
    /\ UNCHANGED << v, srv, issued, idx, username, ctxDone, ret, pre, lastLogin, ncalls >>

\* second half of installation and the rest of Login: the status check,
\* giid(res.Body), then v.giid = giid unless there was an error
LoginGiid ==
    /\ pc = "giid"
    /\ LET r == installation(res)
       IN /\ v' = IF installationFailed(r.err) THEN v ELSE SetGiid(v, r.giid)
          /\ LoginReturns(log, r.err, r.giid)
    /\ UNCHANGED << srv, issued, res, log, pre, ncalls >>

\* a single-request operation returns
Returns(op, err) ==
    /\ pc' = "idle"
    /\ ret' = [op |-> op, err |-> err]
    /\ UNCHANGED << idx, username, ctxDone, lastLogin >>

\* a bug to test with: the route is built from the first candidate endpoint
overviewRequestFirstURL(val) ==
    newRequest("GET", apiURLs[1], "overview", val.giid, "", << >>)

overviewRequest(val) ==
    newRequest("GET", val.baseURL, "overview", val.giid, "", << >>)

Overview ==
    \E done \in BOOLEAN :
        /\ Invoke(done)
        /\ LET req    == overviewRequest(v)
               cookie == JarCookie(v.jar, req.base)
           IN \E out \in Do(req, cookie, done) :
                LET err == IF StatusCheck("overview", out) # NilErr
                           THEN StatusCheck("overview", out)
                           ELSE IF ~out.body.ok THEN DecodeErr ELSE NilErr
                IN /\ log' = << LogEntry(req, cookie, out) >>
                   /\ Returns("Overview", err)
        /\ UNCHANGED << v, srv, issued >>

smartplugRequest(val, updates) ==
    newRequest("POST", val.baseURL, "smartplug/state", val.giid, "", Marshal(updates))

UpdateSmartplug ==
    \E done \in BOOLEAN, updates \in UpdateArgs :
        /\ Invoke(done)
        /\ LET req    == smartplugRequest(v, updates)
               cookie == JarCookie(v.jar, req.base)
           IN \E out \in Do(req, cookie, done) :
                /\ log' = << LogEntry(req, cookie, out) >>
                /\ Returns("UpdateSmartplug", StatusCheck("smartplug", out))
        /\ UNCHANGED << v, srv, issued >>

\* Logout builds its request with http.NewRequest: no headers are added
logoutRequest(val) ==
    Request("DELETE", val.baseURL, "cookie", "", "", "", {}, << >>)

\* a bug to test with: Logout clears the endpoint and the identifier
LogoutClears ==
    \E done \in BOOLEAN :
        /\ Invoke(done)
        /\ LET req    == logoutRequest(v)
               cookie == JarCookie(v.jar, req.base)
           IN \E out \in Do(req, cookie, done) :
                /\ log' = << LogEntry(req, cookie, out) >>
                /\ srv' = IF out.sent /\ out.status = StatusOK THEN srv \ {cookie} ELSE srv
                /\ Returns("Logout", StatusCheck("logout", out))
        /\ v' = [v EXCEPT !.baseURL = "", !.giid = ""]
        /\ UNCHANGED issued

Logout ==
    \E done \in BOOLEAN :
        /\ Invoke(done)
        /\ LET req    == logoutRequest(v)
               cookie == JarCookie(v.jar, req.base)
           IN \E out \in Do(req, cookie, done) :
                /\ log' = << LogEntry(req, cookie, out) >>
                /\ srv' = IF out.sent /\ out.status = StatusOK THEN srv \ {cookie} ELSE srv
                /\ Returns("Logout", StatusCheck("logout", out))
        /\ UNCHANGED << v, issued >>

Next ==
    \/ Login
    \/ CtxDone
    \/ tryURLs
    \/ LoginInstallation
    \/ LoginGiid
    \/ Overview
    \/ UpdateSmartplug
    \/ Logout

Spec == Init /\ [][Next]_vars

\* a Login in progress takes its next step: the loop and the calls of Login
\* are sequential code, and every client.Do call returns
FairSpec ==
    /\ Spec
    /\ WF_vars(tryURLs)
    /\ WF_vars(LoginInstallation)
    /\ WF_vars(LoginGiid)

----------------------------------------------------------------------------
(* Properties *)

Ops == { "Login", "Overview", "UpdateSmartplug", "Logout" }

\* the log is that of a Login, in progress or returned
InLogin == pc # "idle" \/ ret.op = "Login"
\* the last operation was a Login and it has returned
LoginReturned == pc = "idle" /\ ret.op = "Login"

IsSearch(e) == e.req.method = "GET" /\ e.req.route = "search"
\* the authenticate requests of a log that were sent, in the order sent
SentAuth(l) == SelectSeq(l, LAMBDA e : IsAuth(e) /\ e.sent)
\* no authenticate call of the log was answered 200
AllAuthFailed(l) == \A i \in 1..Len(l) : IsAuth(l[i]) => ~Answered200(l[i])
\* the search request of the last Login was answered 200 with a body that decodes
SearchDecoded == LoginReturned /\ Answered200(res) /\ res.body.ok
\* the first record of the search response carries a string giid
FirstHasStringGiid ==
    /\ Len(res.body.recs) >= 1
    /\ "giid" \in DOMAIN res.body.recs[1]
    /\ res.body.recs[1]["giid"].t = "string"

\* C1: the authenticate requests of a Login go to the candidate endpoints
\* in list order, the k-th request to the k-th endpoint, and after an
\* authenticate request was answered 200 no later authenticate request is
\* sent in that Login.
C1_AuthInOrderStopAtFirst200 ==
    InLogin =>
        /\ Len(SentAuth(log)) <= Len(apiURLs)
        /\ \A i \in 1..Len(SentAuth(log)) : SentAuth(log)[i].req.base = apiURLs[i]
        /\ \A i \in 1..Len(log), j \in 1..Len(log) :
              (i < j /\ IsAuth(log[i]) /\ Answered200(log[i]))
                  => ~(IsAuth(log[j]) /\ log[j].sent)

\* a Login whose first endpoint answered 200 and that then sent its search
C1_Witness ==
    /\ LoginReturned
    /\ Len(log) = 2
    /\ IsAuth(log[1]) /\ Answered200(log[1]) /\ log[1].req.base = apiURLs[1]
    /\ IsSearch(log[2]) /\ log[2].sent

\* C2: when no authenticate call of a Login was answered 200, no search
\* request is in its log, and once it has returned it returned an error.
C2_AllAuthFailedNoSearch ==
    (InLogin /\ AllAuthFailed(log)) =>
        /\ \A i \in 1..Len(log) : ~IsSearch(log[i])
        /\ (LoginReturned => ret.err # NilErr)

\* a Login in which both endpoints were asked and neither answered 200:
\* one rejected, the other failed in transport
C2_Witness ==
    /\ LoginReturned
    /\ Len(log) = Len(apiURLs)
    /\ log[1].sent /\ log[1].status = 401
    /\ log[2].sent /\ log[2].err = TransportErr("network")
    /\ ret.err = TransportErr("network")

\* an Overview invoked now with a live context could be answered 200
OverviewCouldSucceed ==
    \E out \in Do(overviewRequest(v), JarCookie(v.jar, v.baseURL), FALSE) :
        StatusCheck("overview", out) = NilErr

\* C3: after a Login has returned, either it returned no error, an endpoint
\* accepted and is the active endpoint, and the identifier is the resolved
\* one; or it returned an error and the session is not one with which a
\* later Overview could succeed.
C3_LoginAllOrNothing ==
    LoginReturned =>
        IF ret.err = NilErr
        THEN /\ lastLogin.accepted \in Endpoints
             /\ v.baseURL = lastLogin.accepted
             /\ v.giid = lastLogin.resolved
        ELSE ~OverviewCouldSucceed

\* C4: when no authenticate call of a returned Login was answered 200,
\* Login returned the error of its last authenticate call, and the active
\* endpoint is what it was when Login was invoked.
C4_AllAuthFailedLastErrorNoEndpoint ==
    (LoginReturned /\ AllAuthFailed(log) /\ Len(log) >= 1) =>
        /\ ret.err = IF log[Len(log)].err # NilErr THEN log[Len(log)].err
                     ELSE StatusErr("login", log[Len(log)].status)
        /\ v.baseURL = pre.v.baseURL

\* C5: an operation invoked with a context that is already done returns an
\* error (a context error whenever its request had an endpoint to go to)
\* and leaves the session as it was: active endpoint, identifier, cookies.
C5_DoneContextNoEffect ==
    (pc = "idle" /\ ret.op \in Ops /\ pre.ctxDone) =>
        /\ ret.err # NilErr
        /\ (ret.op = "Login" \/ pre.v.baseURL # "") => ret.err = TransportErr("context")
        /\ v = pre.v

\* C6: after a Login in which the first endpoint was rejected, the second
\* answered 200 and the identifier was resolved, the active endpoint is the
\* second, and an Overview called afterwards addresses the overview route
\* of the second endpoint with the resolved identifier.
C6_OverviewTargetsSecondEndpoint ==
    (/\ pc = "idle"
     /\ lastLogin.returned /\ lastLogin.err = NilErr
     /\ apiURLs[1] \in lastLogin.failed
     /\ lastLogin.accepted = apiURLs[2]) =>
        /\ v.baseURL = apiURLs[2]
        /\ ret.op = "Overview" =>
              /\ Len(log) = 1
              /\ log[1].req.base = apiURLs[2]
              /\ log[1].req.route = "overview"
              /\ log[1].req.giid = lastLogin.resolved

\* such a Login, then an Overview that was sent and answered 200
C6_Witness ==
    /\ pc = "idle"
    /\ lastLogin.returned /\ lastLogin.err = NilErr
    /\ apiURLs[1] \in lastLogin.failed
    /\ lastLogin.accepted = apiURLs[2]
    /\ ret = [op |-> "Overview", err |-> NilErr]
    /\ Answered200(log[1])

\* C7: when the search of a Login is answered 200 with an empty list, Login
\* returns the error "no installations found" and the identifier is what it
\* was when Login was invoked.
C7_EmptyListNoInstallations ==
    (SearchDecoded /\ Len(res.body.recs) = 0) =>
        /\ ret.err = ProtocolErr("no installations found")
        /\ v.giid = pre.v.giid

\* the case, on a session that had no identifier
C7_Witness ==
    /\ SearchDecoded
    /\ Len(res.body.recs) = 0
    /\ pre.v.giid = ""
    /\ v.giid = ""

\* C8: when the search of a Login is answered 200 with a list whose first
\* record has a string giid, Login returns no error and the identifier is
\* that string, whatever else the first record and the later records hold.
C8_FirstRecordGiid ==
    (SearchDecoded /\ FirstHasStringGiid) =>
        /\ ret.err = NilErr
        /\ lastLogin.resolved = res.body.recs[1]["giid"].s
        /\ v.giid = res.body.recs[1]["giid"].s

\* the response [{"giid": "ABC123", "other": 1}, {"giid": "ZZZ999"}]
C8_Witness ==
    /\ SearchDecoded
    /\ res.body.recs = << ("giid" :> JString("ABC123")) @@ ("other" :> JNumber("1")),
                          ("giid" :> JString("ZZZ999")) >>
    /\ v.giid = "ABC123"

\* C9: when the search of a Login is answered 200 with a list whose first
\* record has no giid, or a giid that is no string, Login returns the error
\* "no giid found" and the identifier is what it was when Login was invoked.
C9_FirstRecordWithoutGiid ==
    (SearchDecoded /\ Len(res.body.recs) >= 1 /\ ~FirstHasStringGiid) =>
        /\ ret.err = ProtocolErr("no giid found")
        /\ v.giid = pre.v.giid

\* the first record has a number as giid, the second a valid one
C9_Witness ==
    /\ SearchDecoded
    /\ res.body.recs = << ("giid" :> JNumber("1")), ("giid" :> JString("ABC123")) >>
    /\ ret.err = ProtocolErr("no giid found")

\* C10: when a Login has returned no error, the identifier is not empty.
C10_IdentifierNonEmpty ==
    (LoginReturned /\ ret.err = NilErr) => v.giid # ""

SingleOps == { "Overview", "UpdateSmartplug", "Logout" }
\* the requests of a log that were sent, in the order sent
Sent(l) == SelectSeq(l, LAMBDA e : e.sent)
\* no client.Do call of the log failed on a context that was done
NoContextError(l) == \A i \in 1..Len(l) : l[i].err # TransportErr("context")

\* C11 as stated, for operations whose context stays live (and, for the
\* single-request operations, a session with an endpoint): Overview,
\* UpdateSmartplug and Logout send exactly one request, Login sends exactly
\* two, an authenticate request and then a search request.
C11_ExactlyOneAndTwo ==
    (pc = "idle" /\ ret.op \in Ops /\ ~pre.ctxDone /\ NoContextError(log)) =>
        IF ret.op = "Login"
        THEN /\ Len(Sent(log)) = 2
             /\ IsAuth(Sent(log)[1])
             /\ IsSearch(Sent(log)[2])
        ELSE pre.v.baseURL # "" => Len(Sent(log)) = 1

\* C11 amended: Overview, UpdateSmartplug and Logout make one client.Do
\* call, whose request is sent exactly when the session has an endpoint and
\* the context is live.  Login sends at most one authenticate request per
\* candidate endpoint, at least one when its context stays live, and at most
\* one search request; the search request comes last, after an authenticate
\* request that was answered 200, and is sent whenever one was answered 200
\* and the context stays live.
C11_RequestCounts ==
    (pc = "idle" /\ ret.op \in Ops) =>
        IF ret.op \in SingleOps
        THEN /\ Len(log) = 1
             /\ log[1].sent <=> (pre.v.baseURL # "" /\ ~pre.ctxDone)
        ELSE /\ Len(SentAuth(log)) <= Len(apiURLs)
             /\ NoContextError(log) => Len(SentAuth(log)) >= 1
             /\ Len(Sent(log)) <= Len(SentAuth(log)) + 1
             /\ \A i \in 1..Len(log) : (IsSearch(log[i]) /\ log[i].sent) =>
                   /\ i = Len(log)
                   /\ i > 1
                   /\ IsAuth(log[i - 1]) /\ Answered200(log[i - 1])
             /\ ((\E i \in 1..Len(log) : IsAuth(log[i]) /\ Answered200(log[i]))
                    /\ NoContextError(log))
                  => (IsSearch(log[Len(log)]) /\ log[Len(log)].sent)

\* a Login that sent three requests: the first endpoint rejected, the
\* second answered 200, then the search
C11_Witness ==
    /\ LoginReturned
    /\ Len(Sent(log)) = 3
    /\ log[1].status = 401
    /\ Answered200(log[2])
    /\ IsSearch(log[3])

\* the call was answered, with a status other than 200
AnsweredOther(e) == e.sent /\ e.err = NilErr /\ e.status # 200
\* the message prefix of the status errors of an operation
PrefixOf(op) == CASE op = "Overview" -> "overview"
                  [] op = "UpdateSmartplug" -> "smartplug"
                  [] op = "Logout" -> "logout"

\* C12: an operation returns no error only if its last request was
\* answered 200.  Overview, UpdateSmartplug and Logout answered with another
\* status return the status error of that operation.  In Login, an
\* authenticate request answered with another status counts as failed (the
\* next endpoint is tried, or Login returns its status error), and a search
\* answered with another status makes Login return its status error and
\* leaves the identifier as it was.
C12_Only200IsSuccess ==
    (pc = "idle" /\ ret.op \in Ops) =>
        /\ ret.err = NilErr => Answered200(log[Len(log)])
        /\ (ret.op \in SingleOps /\ AnsweredOther(log[1]))
              => ret.err = StatusErr(PrefixOf(ret.op), log[1].status)
        /\ ret.op = "Login" =>
              \A i \in 1..Len(log) :
                 /\ (IsAuth(log[i]) /\ AnsweredOther(log[i])) =>
                       IF i < Len(log) THEN IsAuth(log[i + 1])
                       ELSE ret.err = StatusErr("login", log[i].status)
                 /\ (IsSearch(log[i]) /\ AnsweredOther(log[i])) =>
                       /\ ret.err = StatusErr("installations", log[i].status)
                       /\ v.giid = pre.v.giid
                 /\ (IsSearch(log[i]) /\ i > 1) => Answered200(log[i - 1])

\* a Login whose first endpoint answered 204, whose second answered 200
\* and whose search was answered 302
C12_Witness ==
    /\ LoginReturned
    /\ Len(log) = 3
    /\ log[1].sent /\ log[1].status = 204
    /\ Answered200(log[2])
    /\ IsSearch(log[3]) /\ log[3].sent /\ log[3].status = 302
    /\ ret.err = StatusErr("installations", 302)

\* C13: every request that is sent carries the headers
\* Accept: application/json and Content-Type: application/json.
C13_EveryRequestCarriesHeaders ==
    \A i \in 1..Len(log) :
        log[i].sent =>
            { << "Accept", "application/json" >>,
              << "Content-Type", "application/json" >> } \subseteq log[i].req.hdrs

LogoutFrame ==
    (pc = "idle" /\ ret.op = "Logout") =>
        /\ v.baseURL = pre.v.baseURL
        /\ v.giid = pre.v.giid

\* an Overview or UpdateSmartplug called right after Logout returned makes
\* its client.Do call with the endpoint and the identifier the session had
\* before Logout; the request is sent if there is an endpoint and the
\* context is live
LogoutThenCall ==
    (pc = "idle" /\ ret.op = "Logout" /\ ret'.op \in { "Overview", "UpdateSmartplug" }) =>
        /\ Len(log') = 1
        /\ log'[1].req.base = pre.v.baseURL
        /\ log'[1].req.giid = pre.v.giid
        /\ log'[1].sent <=> (pre.v.baseURL # "" /\ ~pre'.ctxDone)

\* C15: whatever the outcome of its DELETE request, Logout leaves the
\* active endpoint and the identifier as they were, and an Overview or
\* UpdateSmartplug called after it still sends its request to that endpoint
\* with that identifier.
C15_LogoutKeepsSession == [] LogoutFrame /\ [][LogoutThenCall]_vars

\* a Logout answered 200 on a session a Login had established, with a call
\* still to come
C15_Witness ==
    /\ pc = "idle"
    /\ ret = [op |-> "Logout", err |-> NilErr]
    /\ Answered200(log[1])
    /\ lastLogin.returned /\ lastLogin.err = NilErr
    /\ v.baseURL = lastLogin.accepted
    /\ v.giid = lastLogin.resolved
    /\ ncalls < MaxCalls

\* the positions of a Login's log where an authenticate call was answered 200
AcceptedAt == { i \in 1..Len(log) : IsAuth(log[i]) /\ Answered200(log[i]) }

\* C16: in a Login where an endpoint E answers authentication with 200, the
\* next client.Do call is the installation search: it is addressed to E,
\* which is also the session's active endpoint, it carries the cookie E's
\* response put in the cookie store (a session the server holds open), and
\* it is sent unless the context has ended in between; nothing follows it.
C16_SearchFollowsAcceptance ==
    InLogin =>
        \A i \in AcceptedAt :
            /\ i = Len(log) <=> pc = "installation"
            /\ i < Len(log) =>
                /\ Len(log) = i + 1
                /\ IsSearch(log[i + 1])
                /\ log[i + 1].req.base = log[i].req.base
                /\ log[i + 1].req.base = v.baseURL
                /\ log[i + 1].cookie # 0
                /\ log[i + 1].cookie = v.jar[log[i].req.base]
                /\ log[i + 1].cookie = issued
                /\ log[i + 1].cookie \in srv
                /\ log[i + 1].cookie # log[i].cookie
                /\ log[i + 1].sent <=> log[i + 1].err # TransportErr("context")

\* the second endpoint accepted after the first refused, and the search was
\* sent to it
C16_Witness ==
    /\ LoginReturned
    /\ Len(log) = 3
    /\ ~Answered200(log[1])
    /\ IsAuth(log[2]) /\ Answered200(log[2])
    /\ log[2].req.base = apiURLs[2]
    /\ IsSearch(log[3]) /\ log[3].sent
    /\ log[3].req.base = apiURLs[2]

\* the positions of the log that hold an authenticate call to endpoint u,
\* and those that hold an installation search
AuthCallsTo(u) == { i \in 1..Len(log) : IsAuth(log[i]) /\ log[i].req.base = u }
SearchCalls == { i \in 1..Len(log) : IsSearch(log[i]) }

\* a Login makes one authenticate call per iteration of the loop, in the
\* order of the candidates, at most one to each; at most one search, which
\* is the last call of the Login whatever its outcome; a single-request
\* operation makes one call whatever its outcome
NoRetry ==
    /\ InLogin =>
        /\ \A u \in Endpoints : Cardinality(AuthCallsTo(u)) <= 1
        /\ Cardinality(SearchCalls) <= 1
        /\ \A i \in SearchCalls : i = Len(log)
        /\ \A i \in 1..Len(log) : IsAuth(log[i]) \/ IsSearch(log[i])
        /\ Len(log) <= Len(apiURLs) + 1
        /\ pc = "tryURLs" => (idx <= Len(apiURLs) /\ Len(log) = idx - 1)
        /\ pc = "giid" => SearchCalls # {}
    /\ (pc = "idle" /\ ret.op \in SingleOps) => Len(log) = 1

\* C17: every Login returns (the caller is idle again and again, so no
\* Login stays in progress for ever); in one Login each candidate endpoint gets at
\* most one authentication request, there is at most one installation
\* search and nothing follows it, failed or not; Overview, UpdateSmartplug
\* and Logout make one request and none after a failure.
C17_TerminatesWithoutRetry == [] NoRetry /\ []<>(pc = "idle")

\* a Login that failed over to the second endpoint and whose search was
\* refused has returned after three requests
C17_Witness ==
    /\ LoginReturned
    /\ ret.err = StatusErr("installations", 401)
    /\ Len(log) = 3
    /\ AuthCallsTo(apiURLs[1]) = { 1 }
    /\ AuthCallsTo(apiURLs[2]) = { 2 }
    /\ SearchCalls = { 3 }

\* C18: the installation identifier changes only in a Login that returns no
\* error: while an operation is in progress, and after a Login that
\* returned an error (from authentication or from the installation search)
\* or after an Overview, UpdateSmartplug or Logout, it is what it was when
\* the operation was invoked.
C18_IdentifierChangesOnlyInLoginSuccess ==
    /\ pc # "idle" => v.giid = pre.v.giid
    /\ (pc = "idle" /\ ret.op \in Ops /\ v.giid # pre.v.giid) =>
            (ret.op = "Login" /\ ret.err = NilErr)

\* a Login on a session whose identifier an earlier Login resolved went as
\* far as a search that was sent, failed there, and the identifier is kept
C18_Witness ==
    /\ LoginReturned
    /\ ret.err # NilErr
    /\ ncalls > 1
    /\ pre.v.baseURL \in Endpoints
    /\ pre.v.giid = "ABC123"
    /\ IsSearch(log[Len(log)]) /\ log[Len(log)].sent
    /\ v.giid = "ABC123"

\* the operation was invoked on a session that holds the identifier given
\* to NewWithGIID; no Login has been invoked on it yet
SuppliedGiid == pre.v.giid \in GiidArgs
BeforeAnyLogin == pre.v.baseURL = ""

\* C19: on a session built by NewWithGIID, an Overview or UpdateSmartplug
\* before any Login builds its route from the supplied identifier and an
\* empty endpoint; a Login still makes the installation search once an
\* endpoint accepted; a Login that returns nil leaves in the session the
\* giid of the first record of the search response in place of the supplied
\* identifier; a Login that returns an error keeps the supplied identifier.
C19_SuppliedIdentifier ==
    /\ (pc = "idle" /\ ret.op \in { "Overview", "UpdateSmartplug" }
            /\ SuppliedGiid /\ BeforeAnyLogin) =>
        /\ Len(log) = 1
        /\ log[1].req.giid = pre.v.giid
        /\ log[1].req.base = ""
        /\ v = pre.v
    /\ (InLogin /\ SuppliedGiid /\ AcceptedAt # {} /\ pc # "installation") =>
        SearchCalls # {}
    /\ (LoginReturned /\ SuppliedGiid /\ ret.err = NilErr) =>
        /\ IsSearch(log[Len(log)]) /\ Answered200(log[Len(log)])
        /\ res.body.ok
        /\ Len(res.body.recs) >= 1
        /\ GiidKey \in DOMAIN res.body.recs[1]
        /\ res.body.recs[1][GiidKey] = JString(v.giid)
    /\ (LoginReturned /\ SuppliedGiid /\ ret.err # NilErr) =>
        v.giid = pre.v.giid

\* the first Login on a session built with "ZZZ999" returned nil and the
\* session now holds "ABC123", the giid of the first installation found
C19_Witness ==
    /\ LoginReturned
    /\ ret.err = NilErr
    /\ BeforeAnyLogin
    /\ pre.v.giid = "ZZZ999"
    /\ v.giid = "ABC123"
    /\ res.body.recs[1][GiidKey] = JString("ABC123")

====
